---- MODULE Spec2Model ----
(***************************************************************************)
(* A model of the de-identification rule compiler of lrwb-aou/curation:    *)
(* the reference resolver (deid/parser.py), the rule handlers and the      *)
(* orchestrator (aou_deid/rules.py) and the SQL assembler                  *)
(* (aou_deid/press.py).                                                    *)
(*                                                                         *)
(* Python strings are modelled as sequences of atoms (TLA+ strings): an    *)
(* atom is a run of characters that no search pattern of the code cuts     *)
(* into.  Substring tests, replace, split and join work on atoms as the    *)
(* Python operations work on characters.  A Python dict is a function, a   *)
(* missing key is a value outside its DOMAIN.  A value that the code       *)
(* type-tests (a citation's 'rules': a string, or a list of rule dicts)    *)
(* carries its kind.  A raised exception is the field err of a result.     *)
(***************************************************************************)
EXTENDS Integers, Sequences, FiniteSets, TLC

\* ------------------------------------------------------------ strings

RECURSIVE Join(_, _)
\* sep.join(ss)
Join(sep, ss) ==
    IF ss = <<>> THEN <<>>
    ELSE IF Len(ss) = 1 THEN ss[1]
    ELSE ss[1] \o sep \o Join(sep, Tail(ss))

IsPrefix(p, s) == Len(p) <= Len(s) /\ SubSeq(s, 1, Len(p)) = p

\* sub in s
Contains(s, sub) ==
    \E i \in 0..(Len(s) - Len(sub)) : SubSeq(s, i + 1, i + Len(sub)) = sub

\* s.find(sub) where sub in s: the first position of sub, 0-based
Find(s, sub) ==
    CHOOSE k \in 0..(Len(s) - Len(sub)) :
        /\ SubSeq(s, k + 1, k + Len(sub)) = sub
        /\ \A j \in 0..(k - 1) : SubSeq(s, j + 1, j + Len(sub)) # sub

\* s with the part before position i, and the part from position i + n on
Before(s, i) == SubSeq(s, 1, i)
After(s, i, n) == SubSeq(s, i + n + 1, Len(s))

RECURSIVE Replace(_, _, _)
\* s.replace(old, new), old not empty: the occurrences of old from left to right
Replace(s, old, new) ==
    IF ~Contains(s, old) THEN s
    ELSE Before(s, Find(s, old)) \o new \o Replace(After(s, Find(s, old), Len(old)), old, new)

RECURSIVE Split(_, _)
\* s.split(sep), sep not empty: the pieces between the occurrences of sep
Split(s, sep) ==
    IF ~Contains(s, sep) THEN <<s>>
    ELSE <<Before(s, Find(s, sep))>> \o Split(After(s, Find(s, sep), Len(sep)), sep)

RECURSIVE Repeat(_, _)
\* np.repeat(x, n).tolist()
Repeat(x, n) == IF n <= 0 THEN <<>> ELSE <<x>> \o Repeat(x, n - 1)

RECURSIVE Flatten(_)
Flatten(ss) == IF ss = <<>> THEN <<>> ELSE Head(ss) \o Flatten(Tail(ss))

\* list.index(x): the first position of x, 0-based
IndexOf(s, x) == (CHOOSE i \in 1..Len(s) : s[i] = x /\ \A j \in 1..(i - 1) : s[j] # x) - 1

Range(s) == {s[i] : i \in 1..Len(s)}

\* {}: a dict with no key
NoDict == [k \in {} |-> k]

\* d.get(k, default)
Get(d, k, default) == IF k \in DOMAIN d THEN d[k] ELSE default

\* a 'rules' value: a string, or a list of rule dicts
StrV(s) == [kind |-> "str", v |-> s]
ListV(l) == [kind |-> "list", v |-> l]

S(a) == <<a>>
SP == " "
Empty == <<>>

\* ------------------------------------------------------------ rules.py

APPLY == "apply"
\* the rule types with the last two exchanged
RULE_TYPES_exchanged == <<"generalize", "compute", "shift", "suppress">>
RULE_TYPES == <<"generalize", "compute", "suppress", "shift">>

\* Rules.COMPUTE
COMPUTE ==
    (<<"year">> :> StrV(<<"EXTRACT", SP, "(YEAR", SP, "FROM", SP, ":FIELD", ")", SP, "AS", SP, ":FIELD">>)) @@
    (<<"month">> :> StrV(<<"EXTRACT", SP, "(MONTH", SP, "FROM", SP, ":FIELD", ")", SP, "AS", SP, ":FIELD">>)) @@
    (<<"day">> :> StrV(<<"EXTRACT", SP, "(DAY", SP, "FROM", SP, ":FIELD", ")", SP, "AS", SP, ":FIELD">>)) @@
    (<<"id">> :> StrV(<<"SELECT", SP, ":FIELD", SP, "FROM", SP, ":table", SP, "where", SP,
                        ":key_field", SP, "=", SP, ":key_value">>))

CondSyntax(if, open, then, else, close) ==
    ("IF" :> if) @@ ("OPEN" :> open) @@ ("THEN" :> then) @@ ("ELSE" :> else) @@ ("CLOSE" :> close)

\* Rules.__init__: self.store_syntax (the entries "random" and "shift" are read by no handler)
store_syntax ==
    ("sqlite" :>
        ( (APPLY :> ( (S("REGEXP") :> <<"LOWER(", ":FIELD", ")", SP, "REGEXP", SP, "LOWER('", ":VAR", "')">>) @@
                      (S("COUNT") :> <<"SELECT", SP, "COUNT(DISTINCT", SP, ":FIELD", ")", SP, "FROM", SP,
                                    ":TABLE", SP, "WHERE", SP, ":KEY", "=", ":VALUE">>) )) @@
          ("cond_syntax" :> CondSyntax(<<"CASE", SP, "WHEN">>, <<>>, <<"THEN">>, <<"ELSE">>, <<"END">>)) )) @@
    ("bigquery" :>
        ( (APPLY :> ( (S("REGEXP") :> <<"REGEXP_CONTAINS", SP, "(LOWER(", ":FIELD", "),", SP, "LOWER('", ":VAR", "'))">>) @@
                      (S("COUNT") :> <<"SELECT", SP, "COUNT", SP, "(DISTINCT", SP, ":KEY", ")", SP, "FROM", SP,
                                    ":TABLE", SP, "WHERE", SP, ":KEY", "=", ":VALUE">>) )) @@
          ("cond_syntax" :> CondSyntax(<<"IF">>, <<"(">>, <<",", SP>>, <<",", SP>>, <<")">>)) )) @@
    ("postgresql" :>
        ( ("cond_syntax" :> CondSyntax(<<"CASE", SP, "WHEN">>, <<>>, <<"THEN">>, <<"ELSE">>, <<"END">>)) ))

\* ------------------------------------------------------------ parser.py

\* the citation with a missing key read as the key named like the rule type
ParseCitation_padded(row) ==
    LET row_rules == Get(row, "rules", StrV(Empty))
        parts == Split(Replace(row_rules.v, S("@"), Empty), S("."))
    IN  IF row_rules.kind # "str" THEN [err |-> "AttributeError", ok |-> FALSE, id |-> Empty, key |-> Empty]
        ELSE IF Len(parts) = 1 THEN [err |-> "none", ok |-> TRUE, id |-> parts[1], key |-> parts[1]]
        ELSE IF Len(parts) # 2 THEN [err |-> "none", ok |-> FALSE, id |-> Empty, key |-> Empty]
        ELSE [err |-> "none", ok |-> TRUE, id |-> parts[1], key |-> parts[2]]

\* Parse.init, lines 25-29: (_id, _key), ok false where the code sets (None, None);
\* a 'rules' that is no string has no replace(): AttributeError, not caught
ParseCitation(row) ==
    LET row_rules == Get(row, "rules", StrV(Empty))
        parts == Split(Replace(row_rules.v, S("@"), Empty), S("."))
    IN  IF row_rules.kind # "str" THEN [err |-> "AttributeError", ok |-> FALSE, id |-> Empty, key |-> Empty]
        ELSE IF Len(parts) # 2 THEN [err |-> "none", ok |-> FALSE, id |-> Empty, key |-> Empty]
        ELSE [err |-> "none", ok |-> TRUE, id |-> parts[1], key |-> parts[2]]

\* Parse.init with the values of the row put over those of the record
ParseRecord_overridden(rule_id, row, cache, c) ==
    [key \in {"label"} \cup DOMAIN row |->
        IF key \in DOMAIN row THEN row[key]
        ELSE IF c.ok /\ c.key # Empty THEN Join(S("."), <<c.id, c.key>>) ELSE S(rule_id)]

\* Parse.init, lines 31-41, for the (_id, _key) c of the citation
ParseRecord(rule_id, row, cache, c) ==
    LET _key == c.ok /\ c.key # Empty
        _id == c.ok /\ c.id # Empty
        label == IF _key THEN Join(S("."), <<c.id, c.key>>) ELSE S(rule_id)
        resolved == _id /\ _key /\ c.id \in DOMAIN cache /\ c.key \in DOMAIN cache[c.id]
    IN  [key \in {"label"} \cup (IF resolved THEN {"rules"} ELSE {}) \cup DOMAIN row |->
            IF key = "label" THEN label
            ELSE IF key = "rules" /\ resolved THEN cache[c.id][c.key]
            ELSE Get(row, key, Empty)]

\* Parse.init(rule_id, row, cache)
ParseInit(rule_id, row, cache) ==
    IF ParseCitation(row).err # "none" THEN [err |-> ParseCitation(row).err, p |-> NoDict]
    ELSE [err |-> "none", p |-> ParseRecord(rule_id, row, cache, ParseCitation(row))]

\* ------------------------------------------------------------ rules.py: validation

\* Rules.validate, lines 115-130: what one row appends to q ("skip": nothing)
ValidateRow(rule_id, row, cache) ==
    LET p == S(rule_id) \in DOMAIN cache
        row_rules == Get(row, "rules", StrV(Empty))
        parts == Split(Replace(row_rules.v, S("@"), Empty), S("."))
    IN  IF "rules" \in DOMAIN row
        THEN IF row_rules.kind # "list" /\ IsPrefix(S("@"), row_rules.v) /\ "into" \in DOMAIN row
             THEN IF Len(parts) # 2 THEN "ValueError"
                  ELSE IF parts[1] # S(rule_id) THEN "false"
                  ELSE IF ~p THEN "KeyError"
                  ELSE IF parts[2] \in DOMAIN cache[S(rule_id)] THEN "true" ELSE "false"
             ELSE "true"
        ELSE IF ~p THEN "true" ELSE "skip"

\* Rules.validate, lines 132-134, for the list q of what the rows gave
ValidateAll(q) ==
    LET raised == {i \in 1..Len(q) : q[i] \in {"ValueError", "KeyError"}}
    IN  IF raised # {} THEN q[CHOOSE i \in raised : \A j \in raised : i <= j]
        ELSE IF \A i \in 1..Len(q) : q[i] # "false" THEN "true" ELSE "false"

\* Rules.validate(rule_id, entry): "true", "false", or the exception of the first row that raises
RulesValidate(rule_id, entry, cache) ==
    ValidateAll([i \in 1..Len(entry) |-> ValidateRow(rule_id, entry[i], cache)])

RECURSIVE FirstErr(_)
\* the exception of the first element of a list of results that raised, or "none"
FirstErr(rs) ==
    IF rs = <<>> THEN "none"
    ELSE IF Head(rs).err # "none" THEN Head(rs).err ELSE FirstErr(Tail(rs))

\* Deid.validate, lines 149-162, for the verdict v of Rules.validate and the rows as parsed
Payload(v, parsed) ==
    IF v \notin {"true", "false"} THEN [err |-> v, valid |-> FALSE, args |-> <<>>]
    ELSE IF v = "false" THEN [err |-> "none", valid |-> FALSE, args |-> <<>>]
    ELSE IF FirstErr(parsed) # "none" THEN [err |-> FirstErr(parsed), valid |-> FALSE, args |-> <<>>]
    ELSE [err |-> "none", valid |-> TRUE, args |-> [i \in 1..Len(parsed) |-> parsed[i].p]]

\* Deid.validate(rule_id, entry): payload None is valid FALSE
DeidValidate(rule_id, entry, cache) ==
    Payload(RulesValidate(rule_id, entry, cache),
            [i \in 1..Len(entry) |-> ParseInit(rule_id, entry[i], cache)])

\* ------------------------------------------------------------ rules.py: handlers

\* a result of a handler: the exception raised ("none": it returned), the list
\* returned, and the cache as the call leaves it
Ret(err, out, cache) == [err |-> err, out |-> out, cache |-> cache]

\* label.split('.')[1], the argument of self.log: IndexError when label has no dot
LabelHasDot(label) == Len(Split(label, S("."))) >= 2

\* unicode.isnumeric() of the model's strings
Numerals == {"0", "1", "2", "3", "50", "89"}
IsNumeric(s) == Len(s) = 1 /\ s[1] \in Numerals

\* lines 238-241, 261-266: _into, quoted unless numeric
Into(args, rule) ==
    LET _into == Get(args, "into", Get(rule, "into", Empty))
    IN  IF IsNumeric(_into) THEN _into ELSE S("'") \o _into \o S("'")

\* lines 238-240, 261-265: with no 'into' in the citation nor in the rule, _into is the
\* default '' of the source, a Python 2 byte string, which has no isnumeric()
IntoRaises(args, rule) == "into" \notin DOMAIN args /\ "into" \notin DOMAIN rule

\* lines 246, 270: whether ELSE follows the branch of rule
ElseFollows(rules, rule) == IndexOf(rules, rule) % 2 = 0 \/ IndexOf(rules, rule) % 3 # 0

\* lines 227-229: the guard on the category values of an aggregate
OnGuard(args, rule, regex) ==
    IF "on" \in DOMAIN rule /\ "key_row" \in DOMAIN args
    THEN regex \o (IF "qualifier" \in DOMAIN rule THEN <<SP, "AND", SP>> ELSE <<SP, "WHERE", SP>>)
               \o Get(args, "key_row", Empty) \o <<SP, "IN", SP, "('">>
               \o Join(<<"',", SP, "'">>, Get(rule, "on", <<>>)) \o S("')")
    ELSE regex

\* lines 209-216: the template of the function, with :FIELD, :FN and :VAR filled in
FilledTemplate(template, fillter, fn, values) ==
    IF Contains(template, S(":VAR"))
    THEN Replace(Replace(Replace(template, S(":FIELD"), fillter), S(":FN"), fn), S(":VAR"), Join(S("|"), values))
    ELSE Replace(Replace(template, S(":FIELD"), fillter), S(":FN"), fn)

\* lines 217-233: regex is the filled template
TemplateRegex(args, rule, regex) ==
    IF Get(rule, APPLY, Empty) \in {S("COUNT"), S("AVG"), S("SUM")}
    THEN Join(S(SP), <<S("("),
                       OnGuard(args, rule,
                               Replace(Replace(Replace(regex, S(":TABLE"), Get(args, "table", Empty)),
                                               S(":KEY"), Get(args, "key_field", Empty)),
                                       S(":VALUE"), Get(args, "value_field", Empty))),
                       S(")"), Get(rule, "qualifier", Empty)>>)
    ELSE Join(S(SP), <<regex, Get(rule, "qualifier", Empty)>>)

\* lines 200-233: the condition of a rule that names a function
ApplyRegex(args, name, rule, store_id) ==
    IF APPLY \notin DOMAIN store_syntax[store_id]
    THEN Get(rule, APPLY, Empty) \o S("(") \o Get(args, "filter", name) \o <<SP, ",", SP, "'">>
         \o Join(S("|"), Get(rule, "values", <<>>)) \o <<"')", SP>> \o Get(rule, "qualifier", Empty)
    ELSE TemplateRegex(args, rule,
            FilledTemplate(Get(store_syntax[store_id][APPLY], Get(rule, APPLY, Empty), Empty),
                           Get(args, "filter", name), Get(rule, APPLY, Empty), Get(rule, "values", <<>>)))

\* the condition of a rule given by its values, the values set apart as in a suppression filter
InlineRegex_spaced(args, name, rule) ==
    Join(S(SP), <<Get(args, "filter", name), Get(rule, "qualifier", Empty),
                  S("('") \o Join(<<"',", SP, "'">>, Get(rule, "values", <<>>)) \o S("')")>>)

\* lines 258-263: the condition of a rule given by its values
InlineRegex(args, name, rule) ==
    Join(S(SP), <<Get(args, "filter", name), Get(rule, "qualifier", Empty),
                  S("('") \o Join(S("','"), Get(rule, "values", <<>>)) \o S("')")>>)

\* lines 244-247, 268-271: the branch of a rule with condition regex, and the ELSE after it
Branch(syntax, regex, into, else) ==
    <<Join(S(SP), <<syntax["IF"], syntax["OPEN"], regex, syntax["THEN"], into>>)>>
    \o (IF else THEN <<syntax["ELSE"]>> ELSE <<>>)

\* lines 192-271: what one rule adds to cond
RuleCond(args, name, rules, rule, store_id) ==
    Branch(store_syntax[store_id]["cond_syntax"],
           IF APPLY \in DOMAIN rule THEN ApplyRegex(args, name, rule, store_id)
           ELSE InlineRegex(args, name, rule),
           Into(args, rule), ElseFollows(rules, rule))

\* lines 275-277: cond with its CLOSE tokens and its alias
Closed(syntax, cond, name) ==
    cond \o Repeat(syntax["CLOSE"], Cardinality({i \in 1..Len(cond) : Contains(cond[i], syntax["IF"])}))
         \o <<S("AS"), name>>

\* lines 278-283: the projection of a field
Projection(args, name, apply) ==
    IF "on" \in DOMAIN args
    THEN ("on" :> args["on"]) @@ ("name" :> name) @@ (APPLY :> apply) @@ ("label" :> Get(args, "label", Empty))
    ELSE ("name" :> name) @@ (APPLY :> apply) @@ ("label" :> Get(args, "label", Empty))

\* lines 190-283: the projection of one field
GeneralizeField(args, name, rules, store_id) ==
    Projection(args, name,
        Join(S(SP), Closed(store_syntax[store_id]["cond_syntax"],
                           Flatten([i \in 1..Len(rules) |-> RuleCond(args, name, rules, rules[i], store_id)])
                           \o <<name>>,
                           name)))

\* lines 189-283: the loop over the fields
GeneralizeFields(args, fields, rules, store_id) ==
    [i \in 1..Len(fields) |-> GeneralizeField(args, fields[i], rules, store_id)]

\* Deid.generalize(**args)
Generalize(args, cache) ==
    LET fields == Get(args, "fields", <<Get(args, "value_field", Empty)>>)
        label == Get(args, "label", Empty)
        rules == Get(args, "rules", StrV(Empty))
        store_id == Get(args, "store", "sqlite")
    IN  IF store_id \notin DOMAIN store_syntax THEN Ret("AttributeError", <<>>, cache)
        ELSE IF rules.v # <<>> /\ fields # <<>> /\ rules.kind # "list" THEN Ret("AttributeError", <<>>, cache)
        ELSE IF rules.v # <<>> /\ fields # <<>> /\ ~LabelHasDot(label) THEN Ret("IndexError", <<>>, cache)
        ELSE IF rules.v # <<>> /\ fields # <<>> /\ \E i \in 1..Len(rules.v) : IntoRaises(args, rules.v[i])
             THEN Ret("AttributeError", <<>>, cache)
        ELSE Ret("none", GeneralizeFields(args, fields, rules.v, store_id), cache)

\* the suppression-filter sequence of a cache: cache.get('suppress', {}).get('FILTERS', [])
Filters(cache) == Get(Get(cache, S("suppress"), NoDict), S("FILTERS"), ListV(<<>>))

\* the append that puts suppression_exp in the place of the sequence
AppendFilter_replacing(cache, exp) ==
    (S("suppress") :> ((S("FILTERS") :> ListV(<<exp>>)) @@ Get(cache, S("suppress"), NoDict))) @@ cache

\* lines 371-377: the append of suppression_exp to the filter sequence
AppendFilter(cache, exp) ==
    IF S("suppress") \notin DOMAIN cache \/ S("FILTERS") \notin DOMAIN cache[S("suppress")]
    THEN (S("suppress") :> (S("FILTERS") :> ListV(<<exp>>))) @@ cache
    ELSE IF cache[S("suppress")][S("FILTERS")].kind # "list"
    THEN [cache EXCEPT ![S("suppress")][S("FILTERS")] = ListV(<<Filters(cache), exp>>)]
    ELSE [cache EXCEPT ![S("suppress")][S("FILTERS")] = ListV(@.v \o <<exp>>)]

\* lines 343-350
apply_filter ==
    (S("IN") :> <<"NOT", SP, "IN">>) @@ (S("=") :> S("<>")) @@ (<<"NOT", SP, "IN">> :> S("IN")) @@
    (S("<>") :> S("=")) @@ (Empty :> <<"IS", SP, "FALSE">>) @@ (S("TRUE") :> <<"IS", SP, "FALSE">>)

\* lines 316, 329: the projection that blanks a column
SuppressColumn(name, label) ==
    LET value == IF Contains(name, S("_id")) THEN <<"NULL", SP, "AS", SP>> \o name
                 ELSE <<"''", SP, "AS", SP>> \o name
    IN  ("name" :> name) @@ (APPLY :> value) @@ ("label" :> label)

\* lines 354-360: the filter built from a function template of the dialect
TemplateFilter(args, rule, store_id) ==
    [filter |-> Replace(Replace(Replace(Get(Get(Get(store_syntax, store_id, NoDict), APPLY, NoDict),
                                            Get(rule, APPLY, Empty), Empty),
                                        S(":VAR"), Join(S("|"), Get(rule, "values", <<>>))),
                                S(":FN"), Get(rule, APPLY, Empty)),
                        S(":FIELD"), Get(args, "filter", Get(args, "on", Empty)))
                \o S(SP) \o Get(args, "qualifier", Empty),
     label |-> Get(args, "label", Empty)]

\* line 366: the qualifier of the citation, IN when there is none
InlineQualifier(args) == IF Get(args, "qualifier", Empty) = Empty THEN S("IN") ELSE Get(args, "qualifier", Empty)

\* lines 366-369: the filter built inline from 'on'; the qualifier is a key of apply_filter
InlineFilter(args, rule) ==
    [filter |-> Join(S(SP), <<Get(args, "on", Empty), apply_filter[InlineQualifier(args)],
                              S("('") \o Join(<<"',", SP, "'">>, Get(rule, "values", <<>>)) \o S("')")>>),
     label |-> Get(args, "label", Empty)]

\* lines 352-369: suppression_exp after the two branches, for exp as the previous
\* iterations left it (<<>>: not yet bound); <<>> when it is still not bound
SuppressionExp(args, rule, exp) ==
    IF Get(rule, APPLY, Empty) \in DOMAIN Get(Get(store_syntax, Get(args, "store", ""), NoDict), APPLY, NoDict)
    THEN <<TemplateFilter(args, rule, Get(args, "store", ""))>>
    ELSE IF "on" \in DOMAIN args THEN <<InlineFilter(args, rule)>>
    ELSE exp

\* line 367: apply_filter[qualifier] raises KeyError
InlineRaises(args, rule) ==
    /\ Get(rule, APPLY, Empty) \notin DOMAIN Get(Get(store_syntax, Get(args, "store", ""), NoDict), APPLY, NoDict)
    /\ "on" \in DOMAIN args
    /\ InlineQualifier(args) \notin DOMAIN apply_filter

RECURSIVE SuppressLoop(_, _, _, _, _)
SuppressRowsStep(args, rules, i, exp, cache) ==
    IF exp = <<>> THEN Ret("UnboundLocalError", <<>>, cache)
    ELSE SuppressLoop(args, rules, i + 1, exp, AppendFilter(cache, exp[1]))

\* lines 341-377: the loop over the rules from rule i on
SuppressLoop(args, rules, i, exp, cache) ==
    IF i > Len(rules) THEN Ret("none", <<>>, cache)
    ELSE IF InlineRaises(args, rules[i]) THEN Ret("KeyError", <<>>, cache)
    ELSE SuppressRowsStep(args, rules, i, SuppressionExp(args, rules[i], exp), cache)

\* lines 309-330: the projections of one field in column mode
SuppressField(name, rules, label) ==
    IF rules.v = <<>> THEN <<SuppressColumn(name, label)>>
    ELSE Flatten([i \in 1..Len(rules.v) |->
            IF name \in Range(Get(rules.v[i], "values", <<>>)) THEN <<SuppressColumn(name, label)>> ELSE <<>>])

\* Deid.suppress(**args)
Suppress(args, cache) ==
    LET rules == Get(args, "rules", [kind |-> "dict", v |-> <<>>])
        label == Get(args, "label", Empty)
        fields == Get(args, "fields", <<>>)
    IN  IF fields # <<>> /\ "on" \notin DOMAIN args
        THEN IF rules.kind = "str" /\ rules.v # <<>>
             THEN IF Contains(rules.v, S(APPLY))
                  THEN IF LabelHasDot(label) THEN Ret("none", <<>>, cache) ELSE Ret("IndexError", <<>>, cache)
                  ELSE Ret("AttributeError", <<>>, cache)
             ELSE IF ~LabelHasDot(label) THEN Ret("IndexError", <<>>, cache)
             ELSE Ret("none", Flatten([i \in 1..Len(fields) |-> SuppressField(fields[i], rules, label)]), cache)
        ELSE IF rules.v = <<>> THEN Ret("none", <<>>, cache)
        ELSE IF rules.kind # "list" THEN Ret("AttributeError", <<>>, cache)
        ELSE SuppressLoop(args, rules.v, 1, <<>>, cache)

\* lines 407-410: the expression cast to a string, its alias moved behind the cast
Cast(result_apply, xchar) ==
    Join(S(SP), <<S("CAST("),
                  Replace(result_apply, xchar \o Split(result_apply, xchar)[Len(Split(result_apply, xchar))], Empty),
                  <<"AS", SP, "STRING", SP, ")", SP>>,
                  xchar \o Split(result_apply, xchar)[Len(Split(result_apply, xchar))]>>)

\* the projection of the field name with the category of the citation left out
ShiftField_plain(args, name, label, result_apply) ==
    (APPLY :> result_apply) @@ ("label" :> label) @@ ("name" :> name)

\* lines 403-411: the projection of the field name
ShiftField(args, name, label, result_apply) ==
    IF "on" \in DOMAIN args
    THEN ("on" :> args["on"]) @@
         (APPLY :> Cast(result_apply, IF Contains(result_apply, <<SP, "AS", SP>>) THEN <<SP, "AS", SP>>
                                      ELSE <<SP, "as", SP>>)) @@
         ("label" :> label) @@ ("name" :> name)
    ELSE (APPLY :> result_apply) @@ ("label" :> label) @@ ("name" :> name)

\* Deid.shift without its test of the filter sequence
Shift_unguarded(args, cache) ==
    IF Get(args, "fields", <<>>) = <<>> THEN Ret("none", <<>>, cache)
    ELSE Ret("none", <<ShiftField(args, args["fields"][1], Get(args, "label", Empty),
                                  Replace(Get(args, "rules", StrV(Empty)).v, S(":FIELD"), args["fields"][1]))>>, cache)

\* Deid.shift(**args)
Shift(args, cache) ==
    LET fields == Get(args, "fields", <<>>)
        rules == Get(args, "rules", StrV(Empty))
    IN  IF Filters(cache).v = <<>> THEN Ret("none", <<>>, cache)
        ELSE IF fields = <<>> THEN Ret("none", <<>>, cache)
        ELSE IF rules.kind # "str" THEN Ret("AttributeError", <<>>, cache)
        ELSE Ret("none", <<ShiftField(args, fields[1], Get(args, "label", Empty),
                                      Replace(rules.v, S(":FIELD"), fields[1]))>>, cache)

\* lines 433-437: the statement of the field
Statement(args, rules, field) ==
    Replace(Replace(Replace(Replace(rules, S(":FIELD"), field),
                            S(":value_field"), Get(args, "value_field", Empty)),
                    S(":key_field"), Get(args, "key_field", Empty)),
            S(":table"), Get(args, "table", Empty))

\* Deid.compute(**args)
Compute(args, cache) ==
    LET fields == Get(args, "fields", <<Get(args, "key_field", Empty)>>)
        rules == Get(args, "rules", StrV(Empty))
    IN  IF rules.kind # "str" THEN Ret("AttributeError", <<>>, cache)
        ELSE IF fields = <<>> THEN Ret("IndexError", <<>>, cache)
        ELSE Ret("none", <<(APPLY :> Statement(args, rules.v, fields[1])) @@ ("name" :> fields[1])
                           @@ ("label" :> Get(args, "label", Empty))>>, cache)

\* getattr(self, rule_id)(**args)
Handler(rule_id, args, cache) ==
    CASE rule_id = "generalize" -> Generalize(args, cache)
      [] rule_id = "compute" -> Compute(args, cache)
      [] rule_id = "suppress" -> Suppress(args, cache)
      [] rule_id = "shift" -> Shift(args, cache)

\* ------------------------------------------------------------ press.py

\* Press.get_tablename(), with self.idataset = 'dataset' and self.tablename = 'table'
idataset == S("dataset")
table_name == idataset \o S(".") \o S("table")

\* to_sql, line 287
SQL_RULE_ORDER == <<"generalize", "suppress", "shift", "compute">>

RECURSIVE SqlFields(_, _, _, _)
\* to_sql, lines 287-295: the loops from rule type r, row i on, over the list fields
SqlFields(fields, info, r, i) ==
    IF r > Len(SQL_RULE_ORDER) THEN fields
    ELSE IF i > Len(info) THEN SqlFields(fields, info, r + 1, 1)
    ELSE LET row == info[i]
             name == Get(row, "name", Empty)
         IN  IF ~Contains(Get(row, "label", Empty), S(SQL_RULE_ORDER[r])) \/ name \notin Range(fields)
             THEN SqlFields(fields, info, r, i + 1)
             ELSE SqlFields([fields EXCEPT ![IndexOf(fields, name) + 1] = Get(row, APPLY, Empty)], info, r, i + 1)

\* to_sql, lines 283-295: the SELECT list, one entry per element of the list
ToSqlFields(columns, info) == SqlFields(columns, info, 1, 1)

\* to_sql, line 304: whether a filter shares a blank-separated word with the columns
FilterApplies(columns, row) == Range(columns) \cap Range(Split(Get(row, "filter", Empty), S(SP))) # {}

\* to_sql, lines 303-308: what the filter at position i of deid_filters appends
WhereItem(columns, deid_filters, i) ==
    IF ~FilterApplies(columns, deid_filters[i]) THEN <<>>
    ELSE <<Get(deid_filters[i], "filter", Empty)>>
         \o (IF IndexOf(deid_filters, deid_filters[i]) < Len(deid_filters) - 1 THEN <<S("AND")>> ELSE <<>>)

\* to_sql, lines 300-308
WhereItems(columns, deid_filters) ==
    (IF deid_filters # <<>> THEN <<S("WHERE")>> ELSE <<>>)
    \o Flatten([i \in 1..Len(deid_filters) |-> WhereItem(columns, deid_filters, i)])

\* to_sql, lines 299-308: the elements appended after the table name
SqlWhere(columns, cache) ==
    IF S("suppress") \in DOMAIN cache /\ S("FILTERS") \in DOMAIN cache[S("suppress")]
    THEN WhereItems(columns, cache[S("suppress")][S("FILTERS")].v)
    ELSE <<>>

\* Press.to_sql(info): the list sql before it is joined
ToSqlList(info, columns, cache) ==
    <<S("SELECT"), Join(S(","), ToSqlFields(columns, info)), <<"FROM", SP>>, table_name>>
    \o SqlWhere(columns, cache)

\* Press.to_sql(info)
ToSql(info, columns, cache) ==
    Replace(Join(S("\t"), ToSqlList(info, columns, cache)), S(":idataset"), idataset)

RECURSIVE Dedup(_)
\* the elements of s, each once, in the order of their first occurrence
Dedup(s) ==
    IF s = <<>> THEN <<>>
    ELSE IF s[Len(s)] \in Range(SubSeq(s, 1, Len(s) - 1)) THEN Dedup(SubSeq(s, 1, Len(s) - 1))
    ELSE Append(Dedup(SubSeq(s, 1, Len(s) - 1)), s[Len(s)])

\* do, line 101
IsMeta(p) == \E i \in 1..Len(p) : "on" \in DOMAIN p[i]

\* do, lines 110-118
RelationalCols(p) == SelectSeq(p, LAMBDA col : "on" \notin DOMAIN col)
MetaCols(p) == SelectSeq(p, LAMBDA col : "on" \in DOMAIN col)
OnValues(meta_cols) == [i \in 1..Len(meta_cols) |-> meta_cols[i]["on"]]
\* the keys of _map in the order of their first insertion (a Python 2 dict iterates
\* in an order of its own; the branches are the same, their order may differ)
FilterList(p) == Dedup(OnValues(MetaCols(p)))
\* every projection of a category in the branch of each category
MapOf_all(p, filter_id) == MetaCols(p)
MapOf(p, filter_id) == SelectSeq(MetaCols(p), LAMBDA col : col["on"] = filter_id)

\* do, lines 122-123
FiltersExist(cache) == Filters(cache).v # <<>>
Conjunction(cache) == IF FiltersExist(cache) THEN <<SP, "AND", SP>> ELSE <<SP, "WHERE", SP>>

\* do, line 128: the branch of one category
CategoryBranch(p, filter_id, columns, cache) ==
    ToSql(MapOf(p, filter_id) \o RelationalCols(p), columns, cache) \o Conjunction(cache) \o filter_id

\* do, lines 132-135: the residual branch, for the query _rsql starts with
Residual(rsql, filter_list, cache) ==
    IF FiltersExist(cache)
    THEN rsql \o <<SP, "AND", SP>>
         \o Replace(Join(<<SP, "AND", SP>>, filter_list), <<SP, "IN", SP>>, <<SP, "NOT", SP, "IN", SP>>)
    ELSE rsql \o <<SP, "WHERE", SP>>
         \o Replace(Join(S(SP), filter_list), <<SP, "IN", SP>>, <<SP, "NOT", SP, "IN", SP>>)

\* do, lines 124-141: the branches of a meta table with the categories filter_list
MetaBranches(p, filter_list, columns, cache) ==
    [i \in 1..Len(filter_list) |-> CategoryBranch(p, filter_list[i], columns, cache)]
    \o <<Residual(ToSql(RelationalCols(p), columns, cache), filter_list, cache)>>

\* do, lines 101-142: the branches of the query, a single one for a relational table
Branches(p, columns, cache) ==
    IF ~IsMeta(p) THEN <<ToSql(p, columns, cache)>>
    ELSE MetaBranches(p, FilterList(p), columns, cache)

\* do, line 142: the text handed to submit
DoSql(p, columns, cache) == Join(<<"\n", "UNION", SP, "ALL", "\n">>, Branches(p, columns, cache))

\* ------------------------------------------------------------ Deid.apply and Press.do, step by step

VARIABLES
    cache,      \* the engine's cache, the object Press.do installs: d.cache = self.deid_rules
    info,       \* the table configuration: rule type -> list of citation rows
    store,      \* the dialect name, self.store
    columns,    \* the schema: self.get(limit=1).columns.tolist()
    pc,         \* where the run is: "apply", "call", "applied", "done", "error"
    ti,         \* apply: the position in RULE_TYPES of the rule type being processed
    payload,    \* apply: r['args'] of the rule type being processed
    ci,         \* apply: the position in payload of the next handler call
    tmp,        \* apply: the results of the handler calls of this rule type so far
    out,        \* apply: the list it returns; do: p
    err,        \* the exception that ended the run, "none" if none did
    sql,        \* do: the branches of the query handed to submit
    hist,       \* history: the handler calls made and, for each element of out, the rule type that produced it
    last,       \* the last call made on its own: the function, its arguments, the cache before, the result
    wait        \* bq_utils.wait_on_jobs: its arguments, its locals, where it is, and the polls it made

vars == <<cache, info, store, columns, pc, ti, payload, ci, tmp, out, err, sql, hist, last, wait>>

\* wait_on_jobs has not been called
NoWait == [at |-> "idle"]

\* the largest number of citations of a table configuration
MaxCitations == 2

\* field names
F_id == S("id")
F_ssn == S("ssn")
F_dob == S("dob")
F_pid == <<"person", "_id">>
F_race == S("race")
F_value == S("value")

Schemas == {<<F_id, F_ssn, F_dob>>, <<F_pid, F_race, F_value>>}

\* the predicate of a meta-table category
OnRace == <<"race", SP, "IN", SP, "('", "a", "')">>

\* a rule file as Press.__init__ loads it: rule definitions by rule type and rule id
RuleFile(filters) ==
    (S("generalize") :>
        ( (S("race") :> ListV(<<[into |-> S("OTHER"), qualifier |-> S("IN"), values |-> <<S("W"), S("B")>>]>>)) @@
          (S("zip") :> ListV(<<[apply |-> S("REGEXP"), into |-> S("0"), values |-> <<S("036"), S("059")>>],
                               [into |-> S("2"), qualifier |-> S("="), values |-> <<S("1")>>]>>)) )) @@
    (S("suppress") :>
        ( (S("COLS") :> ListV(<<[values |-> <<F_ssn, F_pid>>]>>)) @@
          (S("ROWS") :> ListV(<<[values |-> <<S("a"), S("b")>>]>>)) @@
          (S("RX") :> ListV(<<[apply |-> S("REGEXP"), values |-> <<S("x"), S("y")>>]>>)) @@
          (S("FILTERS") :> ListV(filters)) )) @@
    (S("shift") :>
        ( (S("date") :> StrV(<<"DATE_SUB(", ":FIELD", ",", SP, "INTERVAL", SP, "1", SP, "DAY)", SP, "AS", SP, ":FIELD">>)) )) @@
    (S("compute") :>
        ( (S("year") :> COMPUTE[S("year")]) ))

\* a suppression filter a rule file brings with it
FileFilter == [label |-> S("file"),
               filter |-> <<"person", "_id", SP, "IN", SP, "(SELECT", SP, "person", "_id", SP, "FROM", SP, "consent)">>]

Caches == {RuleFile(<<>>), RuleFile(<<FileFilter>>)}

Stores == {"sqlite", "bigquery", "postgresql", "oracle"}

\* the citation rows a table configuration is made of, by rule type
Citations(rule_id) ==
    CASE rule_id = "generalize" ->
            { [rules |-> StrV(<<"@", "generalize", ".", "race">>), into |-> S("OTHER"), fields |-> <<F_race>>],
              [rules |-> StrV(<<"@", "generalize", ".", "zip">>), on |-> OnRace, fields |-> <<F_value>>],
              [rules |-> StrV(<<"@", "generalize", ".", "none">>), into |-> S("X"), fields |-> <<F_race>>],
              [rules |-> StrV(<<"@", "generalize">>), into |-> S("X"), fields |-> <<F_race>>] }
      [] rule_id = "compute" ->
            { [rules |-> StrV(<<"@", "compute", ".", "year">>), fields |-> <<F_dob>>],
              [rules |-> StrV(<<"@", "shift", ".", "date">>), into |-> S("X"), fields |-> <<F_dob>>] }
      [] rule_id = "suppress" ->
            { [fields |-> <<F_ssn>>],
              [rules |-> StrV(<<"@", "suppress", ".", "COLS">>), fields |-> <<F_id, F_ssn, F_dob>>],
              [rules |-> StrV(<<"@", "suppress", ".", "ROWS">>), on |-> F_race, qualifier |-> S("IN")],
              [rules |-> StrV(<<"@", "suppress", ".", "none">>), into |-> S("X"), fields |-> <<F_dob>>] }
      [] rule_id = "shift" ->
            { [rules |-> StrV(<<"@", "shift", ".", "date">>), fields |-> <<F_dob, F_value>>],
              [rules |-> StrV(<<"@", "shift", ".", "date">>), on |-> OnRace, fields |-> <<F_value>>] }

RECURSIVE Configurations(_)
\* the table configurations with n citations in all
Configurations(n) ==
    IF n = 0 THEN {NoDict}
    ELSE LET prev == Configurations(n - 1)
         IN  UNION {UNION {{(t :> Append(Get(c, t, <<>>), row)) @@ c : row \in Citations(t)} :
                           t \in Range(RULE_TYPES)} : c \in prev}

NoHist == [calls |-> <<>>, by |-> <<>>]
NoCall == [op |-> "none", rule_id |-> "none", args |-> NoDict, entry |-> <<>>, before |-> NoDict,
           res |-> [err |-> "none", out |-> <<>>, cache |-> NoDict]]

InitApply ==
    /\ cache \in Caches
    /\ info \in UNION {Configurations(n) : n \in 0..MaxCitations}
    /\ store \in Stores
    /\ columns \in Schemas
    /\ pc = "apply" /\ ti = 1 /\ payload = <<>> /\ ci = 1 /\ tmp = <<>> /\ out = <<>>
    /\ err = "none" /\ sql = <<>> /\ hist = NoHist /\ last = NoCall /\ wait = NoWait

\* after the rule type at position ti: the next one, or the end of apply
NextType(i) == IF i >= Len(RULE_TYPES) THEN "applied" ELSE "apply"

\* apply, lines 456-460, for the payload r that validate returned
Validated(r) ==
    IF r.err # "none"
    THEN /\ pc' = "error" /\ err' = r.err
         /\ UNCHANGED <<ti, payload, ci, tmp>>
    ELSE IF ~r.valid \/ r.args = <<>>
    THEN /\ pc' = NextType(ti) /\ ti' = ti + 1
         /\ UNCHANGED <<payload, ci, tmp, err>>
    ELSE /\ pc' = "call" /\ payload' = r.args /\ ci' = 1 /\ tmp' = <<>>
         /\ UNCHANGED <<ti, err>>

\* apply, lines 453-457: one turn of the loop over RULE_TYPES up to the handler calls
ApplyValidate ==
    /\ pc = "apply"
    /\ IF RULE_TYPES[ti] \notin DOMAIN info
       THEN /\ pc' = NextType(ti) /\ ti' = ti + 1
            /\ UNCHANGED <<payload, ci, tmp, err>>
       ELSE Validated(DeidValidate(RULE_TYPES[ti], info[RULE_TYPES[ti]], cache))
    /\ UNCHANGED <<cache, info, store, columns, out, sql, hist, last, wait>>

\* apply, lines 460-468, for the result r of the handler call
Called(rule_id, r) ==
    /\ cache' = r.cache
    /\ hist' = [calls |-> Append(hist.calls, rule_id),
                by |-> IF r.err = "none" /\ ci = Len(payload)
                       THEN hist.by \o [k \in 1..Len(Flatten(Append(tmp, r.out))) |-> rule_id]
                       ELSE hist.by]
    /\ IF r.err # "none"
       THEN /\ pc' = "error" /\ err' = r.err
            /\ UNCHANGED <<ti, ci, tmp, out>>
       ELSE IF ci < Len(payload)
       THEN /\ ci' = ci + 1 /\ tmp' = Append(tmp, r.out)
            /\ UNCHANGED <<pc, ti, out, err>>
       ELSE /\ out' = out \o Flatten(Append(tmp, r.out))
            /\ pc' = NextType(ti) /\ ti' = ti + 1
            /\ tmp' = Append(tmp, r.out)
            /\ UNCHANGED <<ci, err>>

\* apply, lines 460-468: one handler call of the list comprehension; after the last
\* one the results are added to out
ApplyCall ==
    /\ pc = "call"
    /\ Called(RULE_TYPES[ti], Handler(RULE_TYPES[ti], ("store" :> store) @@ payload[ci], cache))
    /\ UNCHANGED <<info, store, columns, payload, sql, last, wait>>

\* do, lines 101-142: the query is assembled from what apply returned
Assemble ==
    /\ pc = "applied"
    /\ sql' = Branches(out, columns, cache)
    /\ pc' = "done"
    /\ UNCHANGED <<cache, info, store, columns, ti, payload, ci, tmp, out, err, hist, last, wait>>

NextApply == ApplyValidate \/ ApplyCall \/ Assemble

Spec == InitApply /\ [][NextApply]_vars

\* ------------------------------------------------------------ properties of Deid.apply

\* the order the rule types are to be run in
FixedOrder == <<"generalize", "compute", "suppress", "shift">>
Rank(rule_id) == IndexOf(FixedOrder, rule_id)

\* C3: apply runs the rule types in the order generalize, compute, suppress, shift:
\* in the returned list the projections of an earlier rule type precede those of a
\* later one, and no suppress citation is evaluated after a shift citation, so every
\* filter the suppress citations append is there before the first shift citation runs.
C3_FixedOrder ==
    /\ Len(hist.by) = Len(out)
    /\ \A i, j \in 1..Len(hist.by) : i < j => Rank(hist.by[i]) <= Rank(hist.by[j])
    /\ \A i, j \in 1..Len(hist.calls) : i < j => Rank(hist.calls[i]) <= Rank(hist.calls[j])

\* C3: a run over a suppress and a shift citation that both gave a projection
C3_Witness ==
    /\ pc = "done"
    /\ hist.calls = <<"suppress", "shift">>
    /\ hist.by = <<"suppress", "shift">>

\* ------------------------------------------------------------ the resolver, the validation and the handlers, each called on its own

\* the largest number of filters the cache holds when suppress is called
MaxFilters == 1

\* the qualifiers of a row-mode suppress citation; LIKE is no key of apply_filter
Qualifiers == {S("IN"), S("="), <<"NOT", SP, "IN">>, S("<>"), Empty, S("TRUE"), S("LIKE")}

\* the citation rows of a call, by rule type: those of the table configurations and more
CallRows(rule_id) ==
    Citations(rule_id) \cup
    CASE rule_id = "generalize" ->
            { [rules |-> StrV(<<"@", "generalize", ".", "none">>), fields |-> <<F_race>>],
              [rules |-> StrV(<<"@", "shift", ".", "date">>), fields |-> <<F_race>>],
              [rules |-> StrV(<<"@", "generalize", ".", "race">>), label |-> S("mine"), fields |-> <<F_race>>],
              [rules |-> StrV(<<"@", "generalize">>), label |-> S("mine"), fields |-> <<F_race>>] }
      [] rule_id = "compute" ->
            { [rules |-> StrV(<<"@", "compute", ".", "year">>), label |-> S("mine"), table |-> S("person"),
               fields |-> <<F_dob>>] }
      [] rule_id = "suppress" ->
            { [rules |-> StrV(<<"@", "suppress", ".", "ROWS">>), on |-> F_race, qualifier |-> q] : q \in Qualifiers }
            \cup
            { [rules |-> StrV(<<"@", "suppress", ".", "RX">>), on |-> F_race, qualifier |-> q] : q \in Qualifiers }
            \cup
            { [fields |-> <<F_pid, F_dob>>] }
      [] rule_id = "shift" ->
            { [rules |-> StrV(<<"@", "shift", ".", "date">>), fields |-> <<>>],
              [rules |-> StrV(<<"@", "shift", ".", "date">>)],
              [rules |-> StrV(<<"@", "shift", ".", "none">>), fields |-> <<F_dob>>] }

\* the entries of a table configuration handed to validate
Entries(rule_id) ==
    {<<row>> : row \in CallRows(rule_id)} \cup
    {<<r1, r2>> : r1 \in Citations(rule_id), r2 \in Citations(rule_id)}

\* the parameters Deid.validate hands to a handler for the rows of a rule type, resolved against the rule file
ArgsOf(rule_id, store_id) ==
    {("store" :> store_id) @@ ParseInit(rule_id, row, RuleFile(<<>>)).p : row \in CallRows(rule_id)}

\* Rules.__init__: the cache of a new engine
RulesInit == (S("compute") :> COMPUTE)

\* the caches a call is made on: that of a new engine, and the rule files
CallCaches == {RulesInit} \cup Caches

\* the caches are as the calls leave them; nothing else of a run is in use
InitIdle ==
    /\ cache \in CallCaches
    /\ info = NoDict /\ columns = <<>>
    /\ pc = "idle" /\ ti = 1 /\ payload = <<>> /\ ci = 1 /\ tmp = <<>> /\ out = <<>>
    /\ err = "none" /\ sql = <<>> /\ hist = NoHist /\ last = NoCall /\ wait = NoWait

\* the call op(args) or op(entry) for the rule type rule_id gave r
Made(op, rule_id, args, entry, r) ==
    /\ last' = [op |-> op, rule_id |-> rule_id, args |-> args, entry |-> entry, before |-> cache, res |-> r]
    /\ cache' = r.cache
    /\ pc' = "called"
    /\ UNCHANGED <<info, store, columns, ti, payload, ci, tmp, out, err, sql, hist, wait>>

\* the result of Parse.init as a result of a call
Parsed(r, c) == Ret(r.err, <<r.p>>, c)

\* Parse.init(rule_id, row, self.cache)
CallParse ==
    \E rule_id \in Range(RULE_TYPES) : \E row \in CallRows(rule_id) :
        Made("parse", rule_id, row, <<>>, Parsed(ParseInit(rule_id, row, cache), cache))

\* the result of Rules.validate as a result of a call
Verdict(v, c) == IF v \in {"true", "false"} THEN Ret("none", <<v>>, c) ELSE Ret(v, <<>>, c)

\* Rules.validate(rule_id, entry)
CallValidate ==
    \E rule_id \in Range(RULE_TYPES) : \E entry \in Entries(rule_id) :
        Made("validate", rule_id, NoDict, entry, Verdict(RulesValidate(rule_id, entry, cache), cache))

NextResolve == CallParse \/ CallValidate

InitResolve == InitIdle /\ store = "sqlite"

SpecResolve == InitResolve /\ [][NextResolve]_vars

\* pointer(**dict(args, **{"store": store_id})) for the handler of rule_id
Call(rule_id, args) == Made(rule_id, rule_id, args, <<>>, Handler(rule_id, args, cache))

CallGeneralize == \E args \in ArgsOf("generalize", store) : Call("generalize", args)

CallCompute == \E args \in ArgsOf("compute", store) : Call("compute", args)

CallSuppress ==
    /\ Len(Filters(cache).v) < MaxFilters
    /\ \E args \in ArgsOf("suppress", store) : Call("suppress", args)

CallShift == \E args \in ArgsOf("shift", store) : Call("shift", args)

NextCall == CallGeneralize \/ CallCompute \/ CallSuppress \/ CallShift

InitCall == InitIdle /\ store \in Stores

SpecCall == InitCall /\ [][NextCall]_vars

\* ------------------------------------------------------------ properties of the resolver and of the validation

\* the citation "@id.key"
Cited(id, key) == StrV(<<"@">> \o id \o <<".">> \o key)

\* the record Parse.init returned, for a row that cites cache[id][key], has the definition, the label and the keys of the row
ResolvedAs(row, p, id, key, definition) ==
    /\ DOMAIN p = DOMAIN row \cup {"label"}
    /\ p["rules"] = definition
    /\ p["label"] = id \o <<".">> \o key
    /\ \A k \in DOMAIN row \ {"rules", "label"} : p[k] = row[k]

\* C5: for a row whose 'rules' is "@id.key" with id a key of the cache and key a key
\* of cache[id], Parse.init returns a record whose 'rules' is cache[id][key], whose
\* 'label' is "id.key" whatever 'label' the row gives, and whose other keys are the
\* row's with the row's values.
C5_Resolved ==
    last.op = "parse" =>
        \A id \in DOMAIN last.before : \A key \in DOMAIN last.before[id] :
            ("rules" \in DOMAIN last.args /\ last.args["rules"] = Cited(id, key)) =>
                /\ last.res.err = "none"
                /\ ResolvedAs(last.args, last.res.out[1], id, key, last.before[id][key])

\* C5: a row that cites generalize.race and brings a label of its own has been resolved
C5_Witness ==
    /\ last.op = "parse"
    /\ last.args = [rules |-> Cited(S("generalize"), S("race")), label |-> S("mine"), fields |-> <<F_race>>]
    /\ S("generalize") \in DOMAIN last.before
    /\ last.res.out[1]["label"] = <<"generalize", ".", "race">>

\* a row cites a rule that is malformed, of another rule type, or not in the cache
BadCitation(rule_id, row, c) ==
    /\ "rules" \in DOMAIN row
    /\ row["rules"].kind = "str"
    /\ IsPrefix(S("@"), row["rules"].v)
    /\ \A key \in DOMAIN Get(c, S(rule_id), NoDict) : row["rules"] # Cited(S(rule_id), key)

\* C9: validation of an entry rejects, without raising, every citation that is
\* malformed, names another rule type, or names a rule the cache has not, whatever
\* other keys the row has.
C9_Rejects ==
    last.op = "validate" =>
        \A i \in 1..Len(last.entry) :
            BadCitation(last.rule_id, last.entry[i], last.before) =>
                last.res.err = "none" /\ last.res.out = <<"false">>

\* ------------------------------------------------------------ properties of the handlers

\* C4: with an empty or absent filter sequence shift returns no projection, for every
\* field list and whatever else it is given, and leaves the cache as it was; with a
\* filter in the sequence and a field in the list it returns a projection.
C4_ShiftGuard ==
    last.op = "shift" =>
        /\ Filters(last.before).v = <<>> =>
              last.res.err = "none" /\ last.res.out = <<>> /\ last.res.cache = last.before /\ cache = last.before
        /\ (Filters(last.before).v # <<>> /\ Get(last.args, "fields", <<>>) # <<>>) =>
              last.res.err = "none" /\ last.res.out # <<>>

\* C4: shift was called with a field on a cache that has no filter sequence and returned nothing
C4_Witness ==
    /\ last.op = "shift"
    /\ S("suppress") \notin DOMAIN last.before
    /\ Get(last.args, "fields", <<>>) # <<>>
    /\ last.res.out = <<>>

\* the inversion of the qualifiers
Inverted ==
    (S("IN") :> <<"NOT", SP, "IN">>) @@ (S("=") :> S("<>")) @@ (<<"NOT", SP, "IN">> :> S("IN")) @@
    (S("<>") :> S("=")) @@ (Empty :> <<"IS", SP, "FALSE">>) @@ (S("TRUE") :> <<"IS", SP, "FALSE">>)

\* the rule names a function the dialect has a template of
FromTemplate(args, rule) ==
    Get(rule, APPLY, Empty) \in DOMAIN Get(Get(store_syntax, Get(args, "store", ""), NoDict), APPLY, NoDict)

\* the predicate of a row-mode rule with the qualifier q in it
PredicateWith(args, rule, q) ==
    IF FromTemplate(args, rule) THEN TemplateFilter(("qualifier" :> q) @@ args, rule, args["store"]).filter
    ELSE Join(S(SP), <<args["on"], q, S("('") \o Join(<<"',", SP, "'">>, Get(rule, "values", <<>>)) \o S("')")>>)

\* the last filter of the sequence of cache c is the predicate f
LastFilterIs(c, f) == Filters(c).v # <<>> /\ Filters(c).v[Len(Filters(c).v)]["filter"] = f

\* C6: the predicate a row-mode suppress rule appends has the inversion of the
\* citation's qualifier in it, be it built from a template of the dialect or inline.
C6_Inversion ==
    ( /\ last.op = "suppress"
      /\ "on" \in DOMAIN last.args
      /\ Get(last.args, "rules", StrV(Empty)).kind = "list"
      /\ Len(last.args["rules"].v) = 1
      /\ Get(last.args, "qualifier", Empty) \in DOMAIN Inverted )
    => /\ last.res.err = "none"
       /\ LastFilterIs(last.res.cache,
                       PredicateWith(last.args, last.args["rules"].v[1], Inverted[Get(last.args, "qualifier", Empty)]))

\* C6, for the predicates built from a template only
C6_InversionTemplate ==
    (last.op = "suppress" /\ "on" \in DOMAIN last.args /\ Get(last.args, "rules", StrV(Empty)).kind = "list"
     /\ FromTemplate(last.args, last.args["rules"].v[1])) => C6_Inversion

\* C6, for the predicates built inline only
C6_InversionInline ==
    (last.op = "suppress" /\ "on" \in DOMAIN last.args /\ Get(last.args, "rules", StrV(Empty)).kind = "list"
     /\ ~FromTemplate(last.args, last.args["rules"].v[1])) => C6_Inversion

\* the names of the dialects of the catalog
Profiles == {"sqlite", "bigquery", "postgresql"}

\* C10: a handler called with a dialect that is none of the catalog's ends in an
\* error, returns no projection and appends no filter.
C10_UnknownDialect ==
    (last.op \in Range(RULE_TYPES) /\ last.args["store"] \notin Profiles) =>
        last.res.err # "none" /\ last.res.out = <<>> /\ last.res.cache = last.before

\* ------------------------------------------------------------ Press.to_sql and Press.do on the projections handed to them

\* the largest number of projections handed to to_sql and to do
MaxProjections == 3

\* the schema of a meta table
MetaSchema == <<F_race, F_value>>

\* the predicates of two categories of the meta table
OnA == <<"race", SP, "IN", SP, "('", "a", "')">>
OnB == <<"race", SP, "IN", SP, "('", "b", "')">>

\* projections as the handlers return them
Projections ==
    { [apply |-> <<"GA", SP, "AS", SP, "value">>, label |-> <<"generalize", ".", "zip">>, on |-> OnA, name |-> F_value],
      [apply |-> <<"GB", SP, "AS", SP, "value">>, label |-> <<"generalize", ".", "zip">>, on |-> OnB, name |-> F_value],
      [apply |-> <<"G", SP, "AS", SP, "race">>, label |-> <<"generalize", ".", "race">>, name |-> F_race],
      [apply |-> F_value, label |-> S("shift"), name |-> F_race],
      [apply |-> <<"EXTRACT", SP, "(YEAR", SP, "FROM", SP, "value", ")", SP, "AS", SP, "value">>,
       label |-> <<"compute", ".", "year">>, name |-> F_value],
      [apply |-> <<"''", SP, "AS", SP, "value">>, label |-> <<"suppress", ".", "COLS">>, name |-> F_value],
      [apply |-> <<"''", SP, "AS", SP, "ssn">>, label |-> <<"suppress", ".", "COLS">>, name |-> F_ssn] }

RECURSIVE ProjectionLists(_)
\* the lists of n projections
ProjectionLists(n) ==
    IF n = 0 THEN {<<>>}
    ELSE UNION {{Append(l, q) : q \in Projections} : l \in ProjectionLists(n - 1)}

\* suppression filters: one on a column of the meta table, one on a column it has not
ValueFilter == [label |-> S("file"), filter |-> <<"value", SP, "NOT", SP, "IN", SP, "('", "x", "')">>]
PersonFilter == [label |-> S("file"), filter |-> <<"person_id", SP, "IN", SP, "('", "1", "')">>]

PressCaches == {RuleFile(fs) : fs \in {<<>>, <<ValueFilter>>, <<PersonFilter>>, <<ValueFilter, PersonFilter>>}}

\* apply has returned: out is the list p of do, the list info of to_sql
InitPress ==
    /\ cache \in PressCaches
    /\ out \in UNION {ProjectionLists(n) : n \in 0..MaxProjections}
    /\ columns = MetaSchema
    /\ store = "bigquery" /\ info = NoDict
    /\ pc = "applied" /\ ti = 1 /\ payload = <<>> /\ ci = 1 /\ tmp = <<>>
    /\ err = "none" /\ sql = <<>> /\ hist = NoHist /\ last = NoCall /\ wait = NoWait

\* Press.to_sql(info) for the list out
CallToSql ==
    /\ pc = "applied"
    /\ sql' = <<ToSql(out, columns, cache)>>
    /\ pc' = "sql"
    /\ UNCHANGED <<cache, info, store, columns, ti, payload, ci, tmp, out, err, hist, last, wait>>

NextPress == CallToSql \/ Assemble

SpecPress == InitPress /\ [][NextPress]_vars

\* ------------------------------------------------------------ properties of Press.to_sql and Press.do

\* the entries of the SELECT list of a query: what is between SELECT and FROM, at the commas
SelectList(text) == Split(Split(text, S("\t"))[2], S(","))

\* C1: the SELECT list of to_sql has one entry per column of the schema, in the order
\* of the schema: the column's name, or the expression of a projection of that column.
C1_SelectList ==
    pc = "sql" =>
        /\ Len(SelectList(sql[1])) = Len(columns)
        /\ \A i \in 1..Len(columns) :
              \/ SelectList(sql[1])[i] = columns[i]
              \/ \E j \in 1..Len(out) : out[j]["name"] = columns[i] /\ out[j][APPLY] = SelectList(sql[1])[i]

\* the rows of the meta table
Rows == [{"race", "value"} -> {"a", "b", "x"}]

\* the words of a text
Words(text) == SelectSeq(text, LAMBDA a : a \notin {SP, "\t"})

\* the words after WHERE
Condition(text) == After(Words(text), Find(Words(text), S("WHERE")), 1)

\* the number of words of the predicate the words w start with: column IN ('v'),
\* column NOT IN ('v'); 0 if they start with none
PredLen(w) ==
    IF Len(w) >= 5 /\ w[2] = "IN" /\ w[3] = "('" /\ w[5] = "')" THEN 5
    ELSE IF Len(w) >= 6 /\ w[2] = "NOT" /\ w[3] = "IN" /\ w[4] = "('" /\ w[6] = "')" THEN 6
    ELSE 0

PredHolds(w, row) == IF PredLen(w) = 5 THEN row[w[1]] = w[4] ELSE row[w[1]] # w[5]

RECURSIVE WellFormed(_)
\* the words are predicates on columns of the table with AND between them
WellFormed(w) ==
    /\ PredLen(w) > 0
    /\ w[1] \in {"race", "value"}
    /\ \/ Len(w) = PredLen(w)
       \/ /\ Len(w) > PredLen(w) + 1
          /\ w[PredLen(w) + 1] = "AND"
          /\ WellFormed(SubSeq(w, PredLen(w) + 2, Len(w)))

RECURSIVE Satisfies(_, _)
\* row satisfies the well-formed condition w
Satisfies(w, row) ==
    /\ PredHolds(w, row)
    /\ Len(w) = PredLen(w) \/ Satisfies(SubSeq(w, PredLen(w) + 2, Len(w)), row)

\* the query text selects row; a query that is no SQL selects nothing
Selects(text, row) ==
    IF ~Contains(text, S("WHERE")) THEN TRUE
    ELSE WellFormed(Condition(text)) /\ Satisfies(Condition(text), row)

\* row passes the suppression filters that apply to the table
Passes(row) ==
    \A i \in 1..Len(Filters(cache).v) :
        FilterApplies(columns, Filters(cache).v[i]) => Satisfies(Words(Filters(cache).v[i]["filter"]), row)

\* C2: the branches of a meta table partition the rows that pass the suppression
\* filters: each such row is selected by exactly one branch.
C2_Partition ==
    (pc = "done" /\ IsMeta(out)) =>
        \A row \in Rows : Passes(row) => Cardinality({i \in 1..Len(sql) : Selects(sql[i], row)}) = 1

\* C2, for a single category and no suppression filter
C2_PartitionOfOne ==
    (pc = "done" /\ IsMeta(out) /\ Len(sql) = 2 /\ Filters(cache).v = <<>>) =>
        \A row \in Rows : Cardinality({i \in 1..Len(sql) : Selects(sql[i], row)}) = 1

\* ------------------------------------------------------------ properties of Deid.apply on single entries

\* a row with a field list, no rule cited and no 'on'
SelfContained(row) == "fields" \in DOMAIN row /\ "rules" \notin DOMAIN row /\ "on" \notin DOMAIN row

\* the expression that blanks column name
Blanked(name) ==
    IF Contains(name, S("_id")) THEN <<"NULL", SP, "AS", SP>> \o name ELSE <<"''", SP, "AS", SP>> \o name

\* the run is over: the query is assembled, or an exception ended it
Over == pc \in {"done", "error"}

\* C7: a configuration that is one self-contained suppress row compiles without
\* error to one projection per field of the row, NULL AS f for a field with _id in
\* its name and '' AS f for another; suppress fields [ssn] on the schema
\* [id, ssn, dob] gives the SELECT list id,'' AS ssn,dob and no WHERE.
C7_SelfContained ==
    (Over /\ DOMAIN info = {"suppress"} /\ Len(info["suppress"]) = 1 /\ SelfContained(info["suppress"][1])) =>
        /\ pc = "done" /\ err = "none"
        /\ [i \in 1..Len(out) |-> out[i][APPLY]] =
           [i \in 1..Len(info["suppress"][1]["fields"]) |-> Blanked(info["suppress"][1]["fields"][i])]
        /\ (columns = <<F_id, F_ssn, F_dob>> /\ info["suppress"][1]["fields"] = <<F_ssn>>) =>
              /\ SelectList(sql[1]) = <<F_id, <<"''", SP, "AS", SP, "ssn">>, F_dob>>
              /\ (Filters(cache).v = <<>> => ~Contains(sql[1], S("WHERE")))

\* what the handler of rule_id returns for row when the row is the only one compiled
Alone(rule_id, row) ==
    Handler(rule_id, ("store" :> store) @@ ParseInit(rule_id, row, cache).p, cache)

\* row passes the validation of rule_id when it is the only row of the entry
ValidAlone(rule_id, row) == RulesValidate(rule_id, <<row>>, cache) = "true"

\* the rows of the configuration
ConfiguredRows == UNION {{[rule_id |-> t, row |-> info[t][i]] : i \in 1..Len(info[t])} : t \in DOMAIN info}

\* C8: when a citation of an entry fails validation, apply skips that citation
\* only: no error ends the run, and the projections of every citation that is valid
\* are in the list returned.
C8_SkipsOnlyFailed ==
    ( /\ Over
      /\ store \in Profiles
      /\ \E c \in ConfiguredRows : ~ValidAlone(c.rule_id, c.row)
      /\ \A c \in ConfiguredRows : ValidAlone(c.rule_id, c.row) => Alone(c.rule_id, c.row).err = "none" )
    => /\ err = "none"
       /\ \A c \in ConfiguredRows :
             ValidAlone(c.rule_id, c.row) => Range(Alone(c.rule_id, c.row).out) \subseteq Range(out)

\* C8, for the runs that no exception ended
C8_SkipsOnlyFailedNoRaise ==
    err = "none" => C8_SkipsOnlyFailed

\* ------------------------------------------------------------ one engine over a sequence of calls

\* the largest number of filters the cache holds when suppress is called in a sequence of calls
MaxAppends == 2

\* a cache as Rules.set leaves it after set('suppress', 'ROWS', values=['a', 'b']):
\* cache['suppress'] is there and has no FILTERS
CacheAfterSet ==
    (S("suppress") :> (S("ROWS") :> ListV(<<[values |-> <<S("a"), S("b")>>]>>))) @@ RulesInit

\* the caches an engine starts a sequence of calls on
EngineCaches == CallCaches \cup {CacheAfterSet}

\* the suppress citations of a sequence of calls: those with the qualifier IN or with none
EngineRows == {row \in CallRows("suppress") : Get(row, "qualifier", S("IN")) = S("IN")}

\* the parameters of the suppress calls of a sequence, resolved against the rule file
EngineArgs(store_id) ==
    {("store" :> store_id) @@ ParseInit("suppress", row, RuleFile(<<>>)).p : row \in EngineRows}

\* suppress(**args) on an engine whose filter sequence may hold filters already
EngineSuppress ==
    /\ Len(Filters(cache).v) < MaxAppends
    /\ \E args \in EngineArgs(store) : Call("suppress", args)

NextEngine == CallGeneralize \/ CallCompute \/ EngineSuppress \/ CallShift

InitEngine ==
    /\ cache \in EngineCaches
    /\ store \in Stores
    /\ info = NoDict /\ columns = <<>>
    /\ pc = "idle" /\ ti = 1 /\ payload = <<>> /\ ci = 1 /\ tmp = <<>> /\ out = <<>>
    /\ err = "none" /\ sql = <<>> /\ hist = NoHist /\ last = NoCall /\ wait = NoWait

SpecEngine == InitEngine /\ [][NextEngine]_vars

Definitions(c) == UNION {{<<t, k>> : k \in DOMAIN c[t] \ {S("FILTERS")}} : t \in DOMAIN c}

\* C12: no handler changes a rule definition: over every call of generalize, compute,
\* suppress and shift every rule definition of the cache is still there and the same.
C12_DefinitionsKept ==
    [][\A d \in Definitions(cache) : d \in Definitions(cache') /\ cache'[d[1]][d[2]] = cache[d[1]][d[2]]]_vars

\* ------------------------------------------------------------ Press.do twice on one rule file

\* what the first run of do has left: the list p that apply returned as res.out, the
\* query as entry, the cache after the run as res.cache
FirstRun == [op |-> "do", rule_id |-> "none", args |-> NoDict, entry |-> sql, before |-> NoDict,
             res |-> Ret("none", out, cache)]

\* do, lines 94-100, called again: d = Deid(), d.cache = self.deid_rules, the dict
\* that the first run wrote its filters to; apply starts with an empty list
Again ==
    /\ pc = "done" /\ last.op = "none"
    /\ last' = FirstRun
    /\ pc' = "apply" /\ ti' = 1 /\ payload' = <<>> /\ ci' = 1 /\ tmp' = <<>> /\ out' = <<>>
    /\ sql' = <<>> /\ hist' = NoHist
    /\ UNCHANGED <<cache, info, store, columns, err, wait>>

NextTwice == ApplyValidate \/ ApplyCall \/ Assemble \/ Again

SpecTwice == InitApply /\ [][NextTwice]_vars

\* C13: compiling one configuration twice in succession on one engine with one dialect
\* gives the same projection list and the same query both times: the second run ends
\* without error, and the filters of its query are those of the first one.
C13_Deterministic ==
    (Over /\ last.op = "do") =>
        /\ pc = "done"
        /\ out = last.res.out
        /\ sql = last.entry

\* ------------------------------------------------------------ the built-in compute templates

\* C14: at every point of every compilation run, a run started through Press.do included,
\* the templates year, month, day and id are under cache['compute'] with their built-in text
C14_BuiltIns ==
    /\ S("compute") \in DOMAIN cache
    /\ \A k \in DOMAIN COMPUTE : k \in DOMAIN cache[S("compute")] /\ cache[S("compute")][k] = COMPUTE[k]

\* ------------------------------------------------------------ rows that cite nothing

\* the row has no 'rules' entry, or one with no dot in it
NoCitation(row) ==
    \/ "rules" \notin DOMAIN row
    \/ row["rules"].kind = "str" /\ ~Contains(row["rules"].v, S("."))

\* C15: for a row whose 'rules' entry is absent or has no dot, Parse.init returns without
\* error a record labelled with the name of the rule type, with nothing of the cache in it
\* and every key of the row copied
C15_SelfContained ==
    (last.op = "parse" /\ NoCitation(last.args)) =>
        /\ last.res.err = "none"
        /\ LET p == last.res.out[1]
           IN  /\ p["label"] = S(last.rule_id)
               /\ DOMAIN p = DOMAIN last.args \cup {"label"}
               /\ \A key \in DOMAIN last.args \ {"label"} : p[key] = last.args[key]

\* a row with a citation without dot and a label of its own has been parsed on a rule file
C15_Witness ==
    /\ last.op = "parse" /\ NoCitation(last.args)
    /\ "rules" \in DOMAIN last.args /\ "label" \in DOMAIN last.args
    /\ S("generalize") \in DOMAIN last.before
    /\ last.res.err = "none" /\ last.res.out[1]["label"] = S("generalize")

\* ------------------------------------------------------------ generalize over a chain of conditions

MaxConds == 4

\* a field whose name has the IF token of bigquery in it
F_modifier == <<"MOD", "IF", "IER">>

F_x == S("x")

ChainFields == {F_x, F_modifier}

\* conditions given by their values, one that names a function of the dialects' tables and
\* one that names a function of no table
Conditions ==
    { [into |-> S("OTHER"), qualifier |-> S("IN"), values |-> <<S("a"), S("b")>>],
      [into |-> S("2"), qualifier |-> S("="), values |-> <<S("1")>>],
      [apply |-> S("REGEXP"), into |-> S("0"), values |-> <<S("036"), S("059")>>],
      [apply |-> S("SUBSTR"), into |-> S("3"), qualifier |-> S("="), values |-> <<S("1"), S("2")>>] }

\* the condition list of a call
ChainOf(call) == Get(call.args, "rules", ListV(<<>>)).v

\* the arguments of generalize for one field and a condition list
ChainArgs(store_id, name, rules) ==
    ("store" :> store_id) @@ ("fields" :> <<name>>) @@ ("label" :> <<"generalize", ".", "chain">>) @@
    ("rules" :> ListV(rules))

\* Deid.generalize on the condition list of the call before with one more condition
CallLonger ==
    /\ Len(ChainOf(last)) < MaxConds
    /\ \E rule \in Conditions : \E name \in ChainFields :
           Call("generalize", ChainArgs(store, name, Append(ChainOf(last), rule)))

NextChain == CallLonger

InitChain == InitCall /\ cache = RulesInit

SpecChain == InitChain /\ [][NextChain]_vars

\* generalize has returned the projection of one field for a condition list
Generalized ==
    /\ last.op = "generalize" /\ last.res.err = "none" /\ Len(last.res.out) = 1
    /\ last.args["store"] \in DOMAIN store_syntax

\* the call was made for field x with the one condition: values [a, b], qualifier IN
InlineIn ==
    /\ last.op = "generalize" /\ last.args["fields"] = <<F_x>>
    /\ last.args["store"] \in DOMAIN store_syntax
    /\ Len(ChainOf(last)) = 1
    /\ APPLY \notin DOMAIN ChainOf(last)[1]
    /\ ChainOf(last)[1]["qualifier"] = S("IN") /\ ChainOf(last)[1]["values"] = <<S("a"), S("b")>>

\* the text IF OPEN cond THEN into ELSE x CLOSE AS x in the tokens of a dialect
OneBranch(syntax, cond, into) ==
    Join(S(SP), <<syntax["IF"], syntax["OPEN"], cond, syntax["THEN"], into, syntax["ELSE"],
                  F_x, syntax["CLOSE"], S("AS"), F_x>>)

\* C16: an inline condition with values [a, b] and qualifier IN on field x gives an
\* expression with the condition x IN ('a','b') between one IF and one THEN of the dialect,
\* x as the value to fall through to, one CLOSE, and the alias AS x
C16_InlineIn ==
    InlineIn =>
        /\ last.res.err = "none" /\ Len(last.res.out) = 1
        /\ last.res.out[1]["name"] = F_x
        /\ last.res.out[1][APPLY] =
               OneBranch(store_syntax[last.args["store"]]["cond_syntax"],
                         <<"x", SP, "IN", SP, "('", "a", "','", "b", "')">>, <<"'", "OTHER", "'">>)

\* the call has been made in bigquery and gave IF ( x IN ('a','b') ,  'OTHER' ,  x ) AS x
C16_Witness ==
    /\ InlineIn /\ last.args["store"] = "bigquery"
    /\ last.res.out[1][APPLY] =
           <<"IF", SP, "(", SP, "x", SP, "IN", SP, "('", "a", "','", "b", "')", SP, ",", SP, SP,
             "'", "OTHER", "'", SP, ",", SP, SP, "x", SP, ")", SP, "AS", SP, "x">>

\* whether the claim puts an ELSE after the branch at the 1-based position i
ElseAt(i) == i % 2 = 0 \/ i % 3 # 0

\* the expression of the call with the ELSE tokens put by position
ByPosition(args, name, rules, store_id) ==
    Join(S(SP), Closed(store_syntax[store_id]["cond_syntax"],
                       Flatten([i \in 1..Len(rules) |->
                                   Branch(store_syntax[store_id]["cond_syntax"],
                                          IF APPLY \in DOMAIN rules[i] THEN ApplyRegex(args, name, rules[i], store_id)
                                          ELSE InlineRegex(args, name, rules[i]),
                                          Into(args, rules[i]), ElseAt(i))])
                       \o <<name>>,
                       name))

\* C19: in the expression of a condition list an ELSE token follows the branch of a
\* condition exactly when its 1-based position is even or no multiple of 3, for conditions
\* with and without a function, equal conditions included
C19_ElseByPosition ==
    Generalized =>
        last.res.out[1][APPLY] =
            ByPosition(last.args, last.args["fields"][1], ChainOf(last), last.args["store"])

\* the expression of the call with one CLOSE token for each condition, after the field's
\* name and before the alias
ClosedPerCondition(args, name, rules, store_id) ==
    Join(S(SP), Flatten([i \in 1..Len(rules) |-> RuleCond(args, name, rules, rules[i], store_id)])
                \o <<name>>
                \o Repeat(store_syntax[store_id]["cond_syntax"]["CLOSE"], Len(rules))
                \o <<S("AS"), name>>)

\* C20: for every field name, dialect and condition list the expression has as many CLOSE
\* tokens as conditions, after the field's name and before AS <field>
C20_ClosePerCondition ==
    Generalized =>
        last.res.out[1][APPLY] =
            ClosedPerCondition(last.args, last.args["fields"][1], ChainOf(last), last.args["store"])

\* ------------------------------------------------------------ the branches of Press.do

\* the 'on' values of the projections of p
OnSet(p) == {p[i]["on"] : i \in {j \in 1..Len(p) : "on" \in DOMAIN p[j]}}

\* the projections of category c, and those of no category
Carrying(p, c) == SelectSeq(p, LAMBDA col : "on" \in DOMAIN col /\ col["on"] = c)
Without(p) == SelectSeq(p, LAMBDA col : "on" \notin DOMAIN col)

\* text ends with tail
EndsWith(text, tail) ==
    Len(tail) <= Len(text) /\ SubSeq(text, Len(text) - Len(tail) + 1, Len(text)) = tail

\* the text do hands to submit is that of the branches with UNION ALL between them
Joined == Split(DoSql(out, columns, cache), <<"\n", "UNION", SP, "ALL", "\n">>) = sql

\* C17: do gives a single SELECT with no UNION ALL exactly when no projection has 'on';
\* otherwise one branch for each distinct 'on' value and one residual branch, with UNION
\* ALL between them; the branch of category c is the query of the projections of c and
\* of those without 'on', the residual branch that of the projections without 'on'
C17_Branches ==
    pc = "done" =>
        /\ Joined
        /\ (OnSet(out) = {}) <=> (Len(sql) = 1)
        /\ (OnSet(out) = {}) => sql = <<ToSql(out, columns, cache)>>
        /\ (OnSet(out) # {}) =>
              /\ Len(sql) = Cardinality(OnSet(out)) + 1
              /\ \A c \in OnSet(out) : \E i \in 1..(Len(sql) - 1) :
                    /\ IsPrefix(ToSql(Carrying(out, c) \o Without(out), columns, cache), sql[i])
                    /\ EndsWith(sql[i], c)
              /\ IsPrefix(ToSql(Without(out), columns, cache), sql[Len(sql)])

\* do has given the branches of two categories and the residual branch
C17_Witness ==
    /\ pc = "done" /\ Cardinality(OnSet(out)) = 2 /\ Len(sql) = 3
    /\ EndsWith(sql[1], OnA) /\ EndsWith(sql[2], OnB)

\* do has given the single query of a list of projections with no 'on'
C17_WitnessSingle == pc = "done" /\ Len(out) = 2 /\ OnSet(out) = {} /\ Len(sql) = 1

\* ------------------------------------------------------------ bq_utils.py: wait_on_jobs

\* the largest number of jobs waited on, and the largest retry_count
MaxJobs == 2
MaxRetry == 4

JobIds == 1..MaxJobs

RECURSIVE JobLists(_)
\* the lists of n job ids, each id once
JobLists(n) ==
    IF n = 0 THEN {<<>>}
    ELSE UNION {{Append(l, j) : j \in JobIds \ Range(l)} : l \in JobLists(n - 1)}

\* the values of max_poll_interval: small ones, and the default
PollIntervals == {1, 2, 3, 300}

\* wait_on_jobs(job_ids, retry_count), lines 234-235: before the first round
Waiting(job_ids, retry_count, max_poll_interval) ==
    [at |-> "loop", job_ids |-> job_ids, retry_count |-> retry_count,
     max_poll_interval |-> max_poll_interval, _job_ids |-> job_ids,
     poll_interval |-> 1, i |-> 0, polls |-> <<>>, ret |-> <<>>]

\* the filter that drops jobs only when all of them are done
StillRunning_all(_job_ids, done) == IF Range(_job_ids) \subseteq done THEN <<>> ELSE _job_ids

\* line 239: filter(lambda s: not job_status_done(s), _job_ids), done the jobs whose state was DONE
StillRunning(_job_ids, done) == SelectSeq(_job_ids, LAMBDA s : s \notin done)

\* lines 236-243: one round of the loop, with the states the polls of this round find
Round ==
    /\ wait.at = "loop" /\ wait.i < wait.retry_count
    /\ \E done \in SUBSET Range(wait._job_ids) :
          wait' = [wait EXCEPT
                      !.polls = Append(@, [slept |-> wait.poll_interval, polled |-> wait._job_ids, done |-> done]),
                      !._job_ids = StillRunning(@, done),
                      !.at = IF StillRunning(wait._job_ids, done) = <<>> THEN "returned" ELSE "loop",
                      !.ret = <<>>,
                      !.poll_interval = IF StillRunning(wait._job_ids, done) # <<>> /\ @ < wait.max_poll_interval
                                        THEN 2 ^ wait.i ELSE @,
                      !.i = IF StillRunning(wait._job_ids, done) = <<>> THEN @ ELSE @ + 1]
    /\ UNCHANGED <<cache, info, store, columns, pc, ti, payload, ci, tmp, out, err, sql, hist, last>>

\* lines 236, 244-245: the rounds are used up
GiveUp ==
    /\ wait.at = "loop" /\ wait.i = wait.retry_count
    /\ wait' = [wait EXCEPT !.at = "returned", !.ret = wait._job_ids]
    /\ UNCHANGED <<cache, info, store, columns, pc, ti, payload, ci, tmp, out, err, sql, hist, last>>

NextWait == Round \/ GiveUp

InitWait ==
    /\ cache = RulesInit /\ info = NoDict /\ store = "bigquery" /\ columns = <<>>
    /\ pc = "idle" /\ ti = 1 /\ payload = <<>> /\ ci = 1 /\ tmp = <<>> /\ out = <<>>
    /\ err = "none" /\ sql = <<>> /\ hist = NoHist /\ last = NoCall
    /\ \E n \in 0..MaxJobs : \E job_ids \in JobLists(n) : \E retry_count \in 0..MaxRetry :
          \E max_poll_interval \in PollIntervals : wait = Waiting(job_ids, retry_count, max_poll_interval)

SpecWait == InitWait /\ [][NextWait]_vars

\* the function runs on: a round that can be made is made, and so is the return
SpecWaitFair == SpecWait /\ WF_vars(NextWait)

\* the jobs observed DONE in the rounds 1..r
ObservedBy(r) == UNION {wait.polls[k].done : k \in 1..r}

\* no more than retry_count rounds are made
RoundsBounded == Len(wait.polls) <= wait.retry_count

\* a round by which every job has been observed DONE is the last one, and [] is returned in it
ReturnsAtFirst ==
    \A r \in 1..Len(wait.polls) :
        Range(wait.job_ids) \subseteq ObservedBy(r) =>
            wait.at = "returned" /\ wait.ret = <<>> /\ r = Len(wait.polls)

\* what is returned is the list of the jobs never observed DONE
ReturnsTheRest ==
    wait.at = "returned" =>
        wait.ret = SelectSeq(wait.job_ids, LAMBDA s : s \notin ObservedBy(Len(wait.polls)))

\* a job observed DONE in a round is polled in no later round
NotPolledAgain ==
    \A r1 \in 1..Len(wait.polls) : \A r2 \in (r1 + 1)..Len(wait.polls) :
        wait.polls[r1].done \cap Range(wait.polls[r2].polled) = {}

\* C18: wait_on_jobs ends after at most retry_count rounds of polls whatever states the
\* polls find; it returns [] in the first round by which every job has been observed DONE,
\* and otherwise the jobs never observed DONE; a job observed DONE is not polled again
C18_WaitOnJobs ==
    /\ <>(wait.at = "returned")
    /\ [](RoundsBounded /\ ReturnsAtFirst /\ ReturnsTheRest /\ NotPolledAgain)

\* two jobs, one found DONE in the first round and the other in the second of three: []
\* has been returned after two rounds, the second of which polled the second job only
C18_Witness ==
    /\ wait.at = "returned" /\ wait.job_ids = <<1, 2>> /\ wait.retry_count = 3
    /\ Len(wait.polls) = 2 /\ wait.polls[1].done = {1}
    /\ wait.polls[2].polled = <<2>> /\ wait.polls[2].done = {2}
    /\ wait.ret = <<>>

\* the rounds have been used up with a job never observed DONE, which has been returned
C18_WitnessGivenUp ==
    /\ wait.at = "returned" /\ wait.job_ids = <<1, 2>> /\ wait.retry_count = 2
    /\ Len(wait.polls) = 2 /\ ObservedBy(2) = {1} /\ wait.ret = <<2>>

\* the call was made for field x with one condition that names a function for which
\* the dialect has no template
NoTemplate ==
    /\ last.op = "generalize" /\ last.args["fields"] = <<F_x>>
    /\ last.args["store"] \in DOMAIN store_syntax
    /\ Len(ChainOf(last)) = 1
    /\ APPLY \in DOMAIN ChainOf(last)[1]
    /\ \/ APPLY \notin DOMAIN store_syntax[last.args["store"]]
       \/ ChainOf(last)[1][APPLY] \notin DOMAIN store_syntax[last.args["store"]][APPLY]

\* FUNCTION(field , 'v1|v2|...') qualifier
Fallback(rule, name) ==
    rule[APPLY] \o S("(") \o name \o <<SP, ",", SP, "'">> \o Join(S("|"), rule["values"]) \o <<"')", SP>>
    \o Get(rule, "qualifier", Empty)

\* C21: the condition of a rule whose function has no template in the dialect, be it
\* that the dialect has no table of functions or that its table lacks the name, is the
\* text FUNCTION(field , 'v1|v2|...') qualifier
C21_Fallback ==
    NoTemplate =>
        /\ last.res.err = "none" /\ Len(last.res.out) = 1
        /\ last.res.out[1][APPLY] =
               OneBranch(store_syntax[last.args["store"]]["cond_syntax"],
                         Fallback(ChainOf(last)[1], F_x), Into(last.args, ChainOf(last)[1]))

\* ------------------------------------------------------------ the projection of shift

\* shift was called with a field list that is not empty on a cache with a filter
ShiftCalled ==
    /\ last.op = "shift" /\ Filters(last.before).v # <<>>
    /\ Get(last.args, "fields", <<>>) # <<>>

\* the template of the citation with the first field in the place of :FIELD
Shifted(args) == Replace(args["rules"].v, S(":FIELD"), args["fields"][1])

\* C22: with a filter in the sequence shift returns one projection for a field list that
\* is not empty: it has the name of the first field and the shift template with that
\* field in it, no other field of the list is shifted, and it has 'on' exactly when the
\* citation has
C22_ShiftsFirst ==
    ShiftCalled =>
        /\ last.res.err = "none" /\ Len(last.res.out) = 1
        /\ last.res.out[1]["name"] = last.args["fields"][1]
        /\ "on" \in DOMAIN last.res.out[1] <=> "on" \in DOMAIN last.args
        /\ "on" \in DOMAIN last.args => last.res.out[1]["on"] = last.args["on"]
        /\ "on" \notin DOMAIN last.args => last.res.out[1][APPLY] = Shifted(last.args)
        /\ Contains(last.res.out[1][APPLY], Split(Shifted(last.args), <<SP, "AS", SP>>)[1])
        /\ ~Contains(last.res.out[1][APPLY], S(":FIELD"))
        /\ \A i \in 2..Len(last.args["fields"]) :
              last.args["fields"][i] # last.args["fields"][1] =>
                  ~Contains(last.res.out[1][APPLY], last.args["fields"][i])

\* shift has been called with two fields and the date template and returned the
\* projection of the first
C22_Witness ==
    /\ ShiftCalled /\ Len(last.args["fields"]) = 2
    /\ Len(last.res.out) = 1 /\ last.res.out[1]["name"] = F_dob
    /\ last.res.out[1][APPLY] = <<"DATE_SUB(", "dob", ",", SP, "INTERVAL", SP, "1", SP, "DAY)", SP, "AS", SP, "dob">>

\* shift has been called with a category and returned a projection of that category
C22_WitnessOn ==
    /\ ShiftCalled /\ "on" \in DOMAIN last.args
    /\ Len(last.res.out) = 1 /\ last.res.out[1]["on"] = OnRace

\* ------------------------------------------------------------ the two modes of suppress

\* lines 305: the test that selects the column mode
ColumnMode(args) == Get(args, "fields", <<>>) # <<>> /\ "on" \notin DOMAIN args

\* cache c2 is cache c1 but for the filter sequence, which has that of c1 as its beginning
OnlyAppended(c1, c2) ==
    /\ IsPrefix(Filters(c1).v, Filters(c2).v)
    /\ DOMAIN c2 \subseteq DOMAIN c1 \cup {S("suppress")}
    /\ Definitions(c2) = Definitions(c1)
    /\ \A d \in Definitions(c1) : c2[d[1]][d[2]] = c1[d[1]][d[2]]

\* C23: suppress is in column mode exactly when 'fields' is not empty and 'on' is absent;
\* in column mode the filter sequence stays as it is and the projections returned are of
\* fields of the list; in row mode no projection is returned and the only effect is the
\* append to the filter sequence
C23_Modes ==
    (last.op = "suppress" /\ last.res.err = "none") =>
        /\ ColumnMode(last.args) =>
              /\ cache = last.before
              /\ \A i \in 1..Len(last.res.out) : last.res.out[i]["name"] \in Range(last.args["fields"])
        /\ ~ColumnMode(last.args) =>
              /\ last.res.out = <<>>
              /\ OnlyAppended(last.before, cache)

\* ------------------------------------------------------------ compute on the built-in templates

\* a citation of the compute template key, with or without key_field, value_field and table
BuiltInRow(key, fields, has_key, has_value, has_table) ==
    ("rules" :> StrV(<<"@", "compute", ".">> \o key)) @@ ("fields" :> fields) @@
    (IF has_key THEN ("key_field" :> F_pid) ELSE NoDict) @@
    (IF has_value THEN ("value_field" :> F_value) ELSE NoDict) @@
    (IF has_table THEN ("table" :> S("person")) ELSE NoDict)

\* Deid.compute on a citation of a template of the cache, as apply calls it
CallBuiltIn ==
    \E key \in DOMAIN cache[S("compute")] : \E fields \in {<<F_dob>>, <<F_dob, F_race>>} :
        \E has_key \in BOOLEAN : \E has_value \in BOOLEAN : \E has_table \in BOOLEAN :
            Call("compute", ("store" :> store) @@
                            ParseInit("compute", BuiltInRow(key, fields, has_key, has_value, has_table), cache).p)

NextBuiltIn == CallBuiltIn

\* a new engine: the cache is that of Rules.__init__
InitBuiltIn == InitCall /\ cache = RulesInit

SpecBuiltIn == InitBuiltIn /\ [][NextBuiltIn]_vars

\* the placeholders of the templates
Placeholders == {":FIELD", ":key_field", ":value_field", ":key_value", ":table"}

\* compute was called on a citation that has key_field, value_field and table
ComputeCalled ==
    /\ last.op = "compute"
    /\ {"key_field", "value_field", "table"} \subseteq DOMAIN last.args

\* C24: compute returns one projection with the name of the first field, whose
\* expression is the template with the first field, key_field, value_field and table of
\* the citation in the place of :FIELD, :key_field, :value_field and :table; for the four
\* built-in templates no placeholder is left in it
C24_Replaced ==
    ComputeCalled =>
        /\ last.res.err = "none" /\ Len(last.res.out) = 1
        /\ last.res.out[1]["name"] = last.args["fields"][1]
        /\ last.res.out[1][APPLY] =
               Replace(Replace(Replace(Replace(last.args["rules"].v, S(":FIELD"), last.args["fields"][1]),
                                       S(":key_field"), last.args["key_field"]),
                               S(":value_field"), last.args["value_field"]),
                       S(":table"), last.args["table"])
        /\ \A i \in 1..Len(last.res.out[1][APPLY]) : last.res.out[1][APPLY][i] \notin Placeholders

\* ------------------------------------------------------------ the WHERE clause of to_sql

\* the filters of the sequence that share a word with the columns, in the order of the sequence
Included(fields, deid_filters) == SelectSeq(deid_filters, LAMBDA row : FilterApplies(fields, row))

\* WHERE and the k filters with k - 1 AND between them; nothing for no filter
WhereOf(included) ==
    IF included = <<>> THEN <<>>
    ELSE <<S("WHERE")>> \o [i \in 1..(2 * Len(included) - 1) |->
                               IF i % 2 = 1 THEN included[(i + 1) \div 2]["filter"] ELSE S("AND")]

\* C25: the query of to_sql has the filters that share a blank-separated word with the
\* names of the columns, in the order of the sequence, and no other; WHERE is there exactly
\* when a filter is, and k filters have k - 1 AND between them, none before, after or twice
C25_Where ==
    pc = "sql" =>
        sql[1] = Replace(Join(S("\t"), <<S("SELECT"), Join(S(","), ToSqlFields(columns, out)), <<"FROM", SP>>,
                                         table_name>> \o WhereOf(Included(columns, Filters(cache).v))),
                         S(":idataset"), idataset)

\* C25, for the sequences in which every filter applies to the columns and no two are equal
C25_WhereOfApplicable ==
    (pc = "sql" /\ Filters(cache).v \in {<<>>, <<ValueFilter>>}) => C25_Where

\* ------------------------------------------------------------ the residual branch of Press.do

\* the orders the categories of p can be taken in (a Python 2 dict has an order of its own)
Orders(p) == {s \in [1..Cardinality(OnSet(p)) -> OnSet(p)] : Range(s) = OnSet(p)}

\* the negation of a category predicate <column> IN <list>
Negated(predicate) == Replace(predicate, <<SP, "IN", SP>>, <<SP, "NOT", SP, "IN", SP>>)

\* C26: the condition of the residual branch of a meta table is the conjunction of the
\* negations of the predicates of all its categories, with AND between every two of them,
\* with suppression filters and without
C26_Residual ==
    (pc = "done" /\ IsMeta(out)) =>
        \E s \in Orders(out) :
            sql[Len(sql)] =
                ToSql(Without(out), columns, cache)
                \o (IF Filters(cache).v # <<>> THEN <<SP, "AND", SP>> ELSE <<SP, "WHERE", SP>>)
                \o Join(<<SP, "AND", SP>>, [i \in 1..Len(s) |-> Negated(s[i])])

\* C26, for the meta tables of one category
C26_ResidualOfOne ==
    Cardinality(OnSet(out)) = 1 => C26_Residual

\* ------------------------------------------------------------ the category branches of Press.do

\* the number of WHERE keywords of a text
Wheres(text) == Cardinality({i \in 1..Len(text) : text[i] = "WHERE"})

\* C27: in a category branch the predicate of the category comes after AND exactly when
\* the query of the branch has a WHERE clause with a suppression filter in it, and after
\* WHERE otherwise, so that the branch has one WHERE keyword; also when the filter
\* sequence is not empty and none of its filters applies to the columns
C27_OneWhere ==
    (pc = "done" /\ IsMeta(out)) =>
        \A i \in 1..(Len(sql) - 1) :
            /\ Wheres(sql[i]) = 1
            /\ \E c \in OnSet(out) :
                  sql[i] = ToSql(Carrying(out, c) \o Without(out), columns, cache)
                           \o (IF Included(columns, Filters(cache).v) # <<>> THEN <<SP, "AND", SP>>
                               ELSE <<SP, "WHERE", SP>>)
                           \o c

\* C27, for the filter sequences all of whose filters apply to the columns
C27_OneWhereApplicable ==
    Filters(cache).v \in {<<>>, <<ValueFilter>>} => C27_OneWhere

\* no sleep is longer than the one after it
SleepsGrow == \A r \in 2..Len(wait.polls) : wait.polls[r - 1].slept <= wait.polls[r].slept

\* C28: the sleep before a round of polls is never longer than max_poll_interval and
\* never shorter than the sleep before the round before, for every retry_count and every
\* max_poll_interval from 1 on
C28_SleepBounded ==
    wait.at # "idle" =>
        /\ \A r \in 1..Len(wait.polls) : wait.polls[r].slept <= wait.max_poll_interval
        /\ SleepsGrow

\* ------------------------------------------------------------ several projections of one column

\* the positions in p of the projections of column c
Naming(p, c) == {j \in 1..Len(p) : p[j]["name"] = c}

\* the position in SQL_RULE_ORDER of the rule type the label of a projection has
TypeOf(projection) ==
    CHOOSE r \in 1..Len(SQL_RULE_ORDER) :
        /\ Contains(projection["label"], S(SQL_RULE_ORDER[r]))
        /\ \A q \in 1..(r - 1) : ~Contains(projection["label"], S(SQL_RULE_ORDER[q]))

\* the first projection of column c among those of the earliest rule type
Winner(p, c) ==
    CHOOSE j \in Naming(p, c) :
        \A k \in Naming(p, c) : TypeOf(p[j]) < TypeOf(p[k]) \/ (TypeOf(p[j]) = TypeOf(p[k]) /\ j <= k)

\* C29: when several projections of the list name one column of the schema, the entry of
\* that column is the expression of the first of them among those of the earliest rule
\* type in the order generalize, suppress, shift, compute, and no other of them is used
C29_OneUsed ==
    pc = "sql" =>
        \A i \in 1..Len(columns) :
            Cardinality(Naming(out, columns[i])) >= 2 =>
                /\ SelectList(sql[1])[i] = out[Winner(out, columns[i])][APPLY]
                /\ \A j \in Naming(out, columns[i]) :
                      out[j][APPLY] # out[Winner(out, columns[i])][APPLY] =>
                          out[j][APPLY] \notin Range(SelectList(sql[1]))

\* C29, for the lists in which no expression is the bare name of a column
C29_OneUsedOfExpressions ==
    (\A j \in 1..Len(out) : out[j][APPLY] \notin Range(columns)) => C29_OneUsed

\* ------------------------------------------------------------ suppress in row mode on a list of rules

\* the largest number of rules of a rule list
MaxRules == 2

\* rules of a suppress definition: one given by its values, one that names a function
\* cataloged in sqlite and bigquery, one that names a function cataloged nowhere
RowRules ==
    { [values |-> <<S("a"), S("b")>>],
      [apply |-> S("REGEXP"), values |-> <<S("x"), S("y")>>],
      [apply |-> S("SUBSTR"), values |-> <<S("1")>>] }

RECURSIVE RuleLists(_)
\* the lists of n rules
RuleLists(n) ==
    IF n = 0 THEN {<<>>}
    ELSE UNION {{Append(l, rule) : rule \in RowRules} : l \in RuleLists(n - 1)}

\* the arguments of a call in row mode: no 'fields'; 'on' or not
RowArgs(store_id) ==
    UNION {{ ("store" :> store_id) @@ ("rules" :> ListV(rules)) @@ ("qualifier" :> S("IN")) @@
             ("label" :> <<"suppress", ".", "ROWS">>) @@ (IF has_on THEN ("on" :> F_race) ELSE NoDict)
             : rules \in RuleLists(n), has_on \in BOOLEAN } : n \in 0..MaxRules}

\* Deid.suppress in row mode, as the first call on the engine
CallRowMode ==
    /\ last.op = "none"
    /\ \E args \in RowArgs(store) : Call("suppress", args)

NextRowMode == CallRowMode

SpecRowMode == InitCall /\ [][NextRowMode]_vars

\* a predicate can be built from the rule: its function is cataloged in the dialect, or
\* the citation has 'on'
Buildable(args, rule) ==
    \/ "on" \in DOMAIN args
    \/ /\ APPLY \in DOMAIN rule
       /\ args["store"] \in DOMAIN store_syntax
       /\ APPLY \in DOMAIN store_syntax[args["store"]]
       /\ rule[APPLY] \in DOMAIN store_syntax[args["store"]][APPLY]

\* the filters the call has put behind those the cache had
Appended ==
    SubSeq(Filters(cache).v, Len(Filters(last.before).v) + 1, Len(Filters(cache).v))

\* C30: in row mode suppress appends one filter, built from the rule, for each rule of
\* the list from which a predicate can be built, and for any other rule it appends
\* nothing and raises nothing; no filter of an earlier rule is appended again
C30_OnePerRule ==
    (last.op = "suppress" /\ ~ColumnMode(last.args)) =>
        /\ last.res.err = "none"
        /\ IsPrefix(Filters(last.before).v, Filters(cache).v)
        /\ Appended = Flatten([i \in 1..Len(ChainOf(last)) |->
                                  IF Buildable(last.args, ChainOf(last)[i])
                                  THEN SuppressionExp(last.args, ChainOf(last)[i], <<>>)
                                  ELSE <<>>])

\* C30, for the calls in which a predicate can be built from every rule
C30_OnePerRuleBuildable ==
    (\A i \in 1..Len(ChainOf(last)) : Buildable(last.args, ChainOf(last)[i])) => C30_OnePerRule

====
